---- MODULE Spec2Model ----
(***************************************************************************)
(* Model of main.py: the Kayzen campaign ingestion function.               *)
(*                                                                         *)
(*   get_kayzen_access_token  -> action Authenticate                       *)
(*   fetch_all_campaigns      -> actions FetchStart / FetchPage            *)
(*   load_campaigns_to_bigquery -> LoadEnter, GetTable, CreateTable,       *)
(*                                 DeleteExisting, AppendRows              *)
(*   fetch_kayzen_campaigns   -> Invoke + the Return/Raise helpers         *)
(*                                                                         *)
(* Every blocking network call is one step; the local computation that     *)
(* follows it, up to the next network call, belongs to the same step.      *)
(* The API server and the warehouse are external: their answers are        *)
(* nondeterministic choices (status codes, page contents, job failures).   *)
(***************************************************************************)
EXTENDS Integers, Sequences, FiniteSets, TLC

\* ------------------------------------------------------------------ bounds
MaxPages == 2          \* pages with data the server serves before an empty one
MaxPageLen == 1        \* records on one page
MaxBatch == 2          \* records in a batch handed directly to the loader
MaxConcBatch == 1      \* the same, for each of two concurrent loaders
MaxInvocations == 2    \* invocations one after another

\* -------------------------------------------------------- program constants
per_page == 100
HTTP_OK == 200

Procs == {1, 2}

\* ------------------------------------------------------------- id values
\* A campaign's `id` is a JSON value: absent, a number or a string.
NoId == [kind |-> "none", num |-> 0, str |-> ""]
NumId(n) == [kind |-> "num", num |-> n, str |-> ""]
StrId(s) == [kind |-> "str", num |-> 0, str |-> s]

Digit == <<"0", "1", "2", "3", "4", "5", "6", "7", "8", "9">>

RECURSIVE DecStr(_)
DecStr(n) == IF n < 10 THEN Digit[n + 1] ELSE DecStr(n \div 10) \o Digit[(n % 10) + 1]

\* Faulty variant: tests `is not None` instead of truthiness.
TruthyMutant(v) == v.kind # "none"

\* campaign.get('id') in a boolean context: None, 0 and '' are falsy.
Truthy(v) ==
  CASE v.kind = "none" -> FALSE
    [] v.kind = "num" -> v.num # 0
    [] v.kind = "str" -> v.str # ""

\* str(campaign.get('id', ''))
Str(v) ==
  CASE v.kind = "none" -> ""
    [] v.kind = "num" -> DecStr(v.num)
    [] v.kind = "str" -> v.str

IdValues == {NoId, NumId(0), NumId(1), StrId("2")}

\* ------------------------------------------------------------- records
Unset == -1
Campaign(v) == [id |-> v, fetch_timestamp |-> Unset]
ApiCampaigns == {Campaign(v) : v \in IdValues}

RECURSIVE SeqsUpTo(_, _)
SeqsUpTo(S, n) ==
  IF n = 0 THEN {<< >>}
  ELSE LET shorter == SeqsUpTo(S, n - 1)
       IN shorter \cup {Append(s, x) : s \in {t \in shorter : Len(t) = n - 1}, x \in S}

\* What the API server may put on a page, and what a caller may hand the loader.
ServerCampaigns == {Campaign(NumId(1)), Campaign(NumId(2))}
LoaderCampaigns == ApiCampaigns

\* ------------------------------------------------------------- errors
NoError == [kind |-> "none", page |-> 0, status |-> 0]
ConfigError == [kind |-> "Missing required environment variables", page |-> 0, status |-> 0]
AuthError(status) == [kind |-> "Authentication failed with status code", page |-> 0, status |-> status]
TokenKeyError == [kind |-> "'access_token'", page |-> 0, status |-> 0]
FetchError(pg, status) == [kind |-> "Error fetching data on page", page |-> pg, status |-> status]
JobError(op) == [kind |-> op, page |-> 0, status |-> 0]

\* ------------------------------------------------------------- responses
NoResponse == [statusCode |-> 0, message |-> "", campaigns_processed |-> Unset, error |-> NoError]
Success(cs) == [statusCode |-> 200, message |-> "Success", campaigns_processed |-> Len(cs), error |-> NoError]
\* Faulty variant: the except branch forgets the status code.
FailureMutant(e) == [statusCode |-> 200, message |-> "", campaigns_processed |-> Unset, error |-> e]
Failure(e) == [statusCode |-> 500, message |-> "", campaigns_processed |-> Unset, error |-> e]

\* ------------------------------------------------------------- environment
RequiredVars == {"KAYZEN_API_KEY", "KAYZEN_API_SECRET", "KAYZEN_USERNAME", "KAYZEN_PASSWORD",
                 "GCP_PROJECT_ID", "BIGQUERY_DATASET_ID", "BIGQUERY_TABLE_ID"}
\* os.environ.get(name): None when unset, '' when set to nothing, else a value.
EnvValues == {"None", "", "value"}
EnvTruthy(x) == x # "None" /\ x # ""
\* Faulty variant: any() instead of all().
AllRequiredMutant(e) == \E v \in RequiredVars : EnvTruthy(e[v])
\* all(required_vars)
AllRequired(e) == \A v \in RequiredVars : EnvTruthy(e[v])
FullEnv == [v \in RequiredVars |-> "value"]

\* ------------------------------------------------------------- server answers
\* Any status but 200 is an error to the client.
ErrorStatuses == {400, 401, 403, 404, 429, 500, 503}
TokenResponses == {[status |-> HTTP_OK, has_token |-> TRUE], [status |-> HTTP_OK, has_token |-> FALSE]}
                  \cup {[status |-> s, has_token |-> FALSE] : s \in ErrorStatuses}
PageResponses ==
  {[status |-> HTTP_OK, has_data |-> TRUE, data |-> d] : d \in SeqsUpTo(ServerCampaigns, MaxPageLen)}
  \cup {[status |-> HTTP_OK, has_data |-> FALSE, data |-> << >>]}
  \cup {[status |-> s, has_data |-> FALSE, data |-> << >>] : s \in ErrorStatuses}

\* response.json().get("data", [])
DataOf(r) == IF r.has_data THEN r.data ELSE << >>

\* ------------------------------------------------------------- warehouse
\* The table is a multiset of rows: a function from row to its number of copies.
NoRows == [r \in {} |-> 0]
Copies(t, r) == IF r \in DOMAIN t THEN t[r] ELSE 0
RECURSIVE RowsOf(_)
RowsOf(rows) ==
  IF rows = << >> THEN NoRows
  ELSE LET rest == RowsOf(Tail(rows))
           r == Head(rows)
       IN [x \in DOMAIN rest \cup {r} |-> Copies(rest, x) + (IF x = r THEN 1 ELSE 0)]
\* WRITE_APPEND
Appended(t, rows) ==
  LET new == RowsOf(rows)
  IN [x \in DOMAIN t \cup DOMAIN new |-> Copies(t, x) + Copies(new, x)]
\* DELETE ... WHERE id IN UNNEST(ids): a row without an id matches nothing.
\* The id column holds NULL for a record without an id.
ColumnText(v) ==
  CASE v.kind = "none" -> "NULL"
    [] v.kind = "num" -> DecStr(v.num)
    [] v.kind = "str" -> v.str
RowMatches(r, ids) == r.id.kind # "none" /\ ColumnText(r.id) \in ids
Deleted(t, ids) == [x \in {r \in DOMAIN t : ~RowMatches(r, ids)} |-> t[x]]
\* WRITE_TRUNCATE
Truncated(t, rows) == RowsOf(rows)

\* ------------------------------------------------------------- loader helpers
\* for campaign in campaigns: campaign['fetch_timestamp'] = current_timestamp
Stamped(cs, ts) == [i \in 1..Len(cs) |-> [cs[i] EXCEPT !.fetch_timestamp = ts]]
\* Faulty variant: the comprehension skips the first record.
CampaignIdsMutant(cs) ==
  LET rest == IF cs = << >> THEN << >> ELSE Tail(cs)
      kept == SelectSeq(rest, LAMBDA c : Truthy(c.id))
  IN [i \in 1..Len(kept) |-> Str(kept[i].id)]
\* [str(campaign.get('id', '')) for campaign in campaigns if campaign.get('id')]
RECURSIVE CampaignIds(_)
CampaignIds(cs) ==
  IF cs = << >> THEN << >>
  ELSE IF Truthy(Head(cs).id) THEN <<Str(Head(cs).id)>> \o CampaignIds(Tail(cs))
  ELSE CampaignIds(Tail(cs))
\* campaigns[:1]
FirstRecord(cs) == SubSeq(cs, 1, IF Len(cs) >= 1 THEN 1 ELSE 0)
Range(s) == {s[i] : i \in 1..Len(s)}

\* ------------------------------------------------------------------ state
VARIABLES
  env,               \* os.environ, the seven required names
  pc,                \* per invocation: where it stands
  caller,            \* per invocation: "orchestrator", or a direct call of one function
  access_token,      \* per invocation
  page,              \* fetch_all_campaigns: page
  all_campaigns,     \* fetch_all_campaigns: all_campaigns
  served,            \* history: the answers the server gave to the page requests
  campaigns,         \* the batch (the list the fetcher returned / the loader got)
  campaign_ids,      \* load_campaigns_to_bigquery: campaign_ids
  current_timestamp, \* load_campaigns_to_bigquery: current_timestamp
  response,          \* what fetch_kayzen_campaigns returned
  raised,            \* history: the exception that ended the invocation, if any
  table,             \* the destination table's rows
  tableExists,       \* whether the destination table exists
  tableBefore,       \* history: the table when the loader was entered
  clock,             \* datetime.utcnow()
  calls,             \* history: the network calls made, in order
  invocations,       \* number of invocations started so far
  overlapped         \* history: one loader was entered while another was running

vars == <<env, pc, caller, access_token, page, all_campaigns, served, campaigns, campaign_ids,
          current_timestamp, response, raised, table, tableExists, tableBefore, clock, calls,
          invocations, overlapped>>

fetcherVars == <<page, all_campaigns, served>>
loaderVars == <<campaigns, campaign_ids, current_timestamp, tableBefore, overlapped>>
warehouse == <<table, tableExists>>

\* One network call and how it ended: the HTTP status of an API call (0 for a warehouse
\* call), and whether the caller got what it asked for.
Call(op, p, pg, ids, rows, status, ok) ==
  [op |-> op, by |-> p, page |-> pg, per_page |-> IF op = "page" THEN per_page ELSE 0,
   ids |-> ids, rows |-> rows, status |-> status, ok |-> ok]
TokenCall(p, r) == Call("token", p, 0, {}, << >>, r.status, r.status = HTTP_OK /\ r.has_token)
PageCall(p, pg, r) == Call("page", p, pg, {}, << >>, r.status, r.status = HTTP_OK)
GetTableCall(p, ok) == Call("get_table", p, 0, {}, << >>, 0, ok)
CreateCall(p, rows, ok) == Call("create", p, 0, {}, rows, 0, ok)
DeleteCall(p, ids, ok) == Call("delete", p, 0, ids, << >>, 0, ok)
AppendCall(p, rows, ok) == Call("append", p, 0, {}, rows, 0, ok)

InLoader(q) == pc[q] \in {"get_table", "create", "delete", "append"}

\* The state an invocation starts from.
Fresh(p, who) ==
  /\ caller' = [caller EXCEPT ![p] = who]
  /\ invocations' = invocations + 1
  /\ calls' = SelectSeq(calls, LAMBDA c : c.by # p)
  /\ served' = [served EXCEPT ![p] = << >>]
  /\ campaign_ids' = [campaign_ids EXCEPT ![p] = << >>]
  /\ current_timestamp' = [current_timestamp EXCEPT ![p] = Unset]

\* The end of an invocation: fetch_kayzen_campaigns returns (it never raises); a function
\* called directly returns or lets its exception out.
Ends(p, who, e, cs) ==
  /\ pc' = [pc EXCEPT ![p] = "done"]
  /\ raised' = [raised EXCEPT ![p] = e]
  /\ response' = [response EXCEPT ![p] =
       IF who # "orchestrator" THEN NoResponse
       ELSE IF e = NoError THEN Success(cs) ELSE Failure(e)]

Continues(p, next) ==
  /\ pc' = [pc EXCEPT ![p] = next]
  /\ raised' = [raised EXCEPT ![p] = NoError]
  /\ response' = [response EXCEPT ![p] = NoResponse]

\* Faulty variant: the empty-batch test is missing.
EmptyBatchMutant(batch) == FALSE
\* `if not campaigns`
EmptyBatch(batch) == batch = << >>

\* load_campaigns_to_bigquery up to its first network call.
LoadEnter(p, who, batch) ==
  /\ campaigns' = [campaigns EXCEPT ![p] = batch]
  /\ tableBefore' = [tableBefore EXCEPT ![p] = table]
  /\ IF EmptyBatch(batch)
     THEN /\ Ends(p, who, NoError, batch)
          /\ UNCHANGED overlapped
     ELSE /\ Continues(p, "get_table")
          /\ overlapped' = (overlapped \/ \E q \in Procs \ {p} : InLoader(q))

\* current_timestamp, the stamping loop and campaign_ids, up to the next network call.
StampAndCollect(p) ==
  LET ts == clock
      stamped == Stamped(campaigns[p], ts)
      ids == CampaignIds(stamped)
  IN /\ clock' = clock + 1
     /\ current_timestamp' = [current_timestamp EXCEPT ![p] = ts]
     /\ campaigns' = [campaigns EXCEPT ![p] = stamped]
     /\ campaign_ids' = [campaign_ids EXCEPT ![p] = ids]
     /\ pc' = [pc EXCEPT ![p] = IF ids # << >> THEN "delete" ELSE "append"]

\* ---------------------------------------------------------------- actions
\* fetch_kayzen_campaigns, from its call to the token request.
Invoke(p) ==
  /\ pc[p] \in {"idle", "done"}
  /\ invocations < MaxInvocations
  /\ Fresh(p, "orchestrator")
  /\ access_token' = [access_token EXCEPT ![p] = ""]
  /\ page' = [page EXCEPT ![p] = 0]
  /\ all_campaigns' = [all_campaigns EXCEPT ![p] = << >>]
  /\ campaigns' = [campaigns EXCEPT ![p] = << >>]
  /\ IF AllRequired(env)
     THEN Continues(p, "auth")
     ELSE Ends(p, "orchestrator", ConfigError, << >>)
  /\ tableBefore' = [tableBefore EXCEPT ![p] = NoRows]
  /\ UNCHANGED <<env, warehouse, overlapped, clock>>

\* get_kayzen_access_token, and on success the fetcher's first lines.
Authenticate(p) ==
  /\ pc[p] = "auth"
  /\ \E r \in TokenResponses :
       /\ calls' = Append(calls, TokenCall(p, r))
       /\ IF r.status # HTTP_OK
          THEN /\ Ends(p, caller[p], AuthError(r.status), << >>)
               /\ UNCHANGED <<access_token, page, all_campaigns>>
          ELSE IF ~r.has_token
          THEN /\ Ends(p, caller[p], TokenKeyError, << >>)
               /\ UNCHANGED <<access_token, page, all_campaigns>>
          ELSE /\ Continues(p, "fetch")
               /\ access_token' = [access_token EXCEPT ![p] = "token"]
               /\ page' = [page EXCEPT ![p] = 1]
               /\ all_campaigns' = [all_campaigns EXCEPT ![p] = << >>]
  /\ UNCHANGED <<env, caller, served, loaderVars, warehouse, clock, invocations>>

\* A direct call of fetch_all_campaigns.
FetchCall(p) ==
  /\ pc[p] \in {"idle", "done"}
  /\ invocations < MaxInvocations
  /\ Fresh(p, "fetcher")
  /\ Continues(p, "fetch")
  /\ access_token' = [access_token EXCEPT ![p] = "token"]
  /\ page' = [page EXCEPT ![p] = 1]
  /\ all_campaigns' = [all_campaigns EXCEPT ![p] = << >>]
  /\ campaigns' = [campaigns EXCEPT ![p] = << >>]
  /\ tableBefore' = [tableBefore EXCEPT ![p] = NoRows]
  /\ UNCHANGED <<env, warehouse, overlapped, clock>>

\* What follows the fetcher's return: the loader's first lines in the orchestrator.
FetchReturns(p, result) ==
  IF caller[p] = "orchestrator"
  THEN LoadEnter(p, caller[p], result)
  ELSE /\ campaigns' = [campaigns EXCEPT ![p] = result]
       /\ Ends(p, caller[p], NoError, result)
       /\ UNCHANGED <<tableBefore, overlapped>>

\* The loop's exit test: `if not data: break`.
LastPage(data) == data = << >>
\* Faulty variant: assignment instead of extend.
ExtendedMutant(all, data) == data
\* all_campaigns.extend(data)
Extended(all, data) == all \o data
\* page += 1
NextPage(pg) == pg + 1

\* One turn of the loop of fetch_all_campaigns: one page request and what follows it.
FetchPage(p) ==
  /\ pc[p] = "fetch"
  /\ \E r \in PageResponses :
       /\ calls' = Append(calls, PageCall(p, page[p], r))
       /\ DataOf(r) # << >> => page[p] <= MaxPages
       /\ served' = [served EXCEPT ![p] = Append(@, r)]
       /\ IF r.status # HTTP_OK
          THEN /\ Ends(p, caller[p], FetchError(page[p], r.status), << >>)
               /\ UNCHANGED <<page, all_campaigns, campaigns, tableBefore, overlapped>>
          ELSE IF LastPage(DataOf(r))
          THEN /\ FetchReturns(p, all_campaigns[p])
               /\ UNCHANGED <<page, all_campaigns>>
          ELSE /\ all_campaigns' = [all_campaigns EXCEPT ![p] = Extended(@, DataOf(r))]
               /\ page' = [page EXCEPT ![p] = NextPage(@)]
               /\ UNCHANGED <<pc, raised, response, campaigns, tableBefore, overlapped>>
  /\ UNCHANGED <<env, caller, access_token, campaign_ids, current_timestamp, warehouse, clock,
                 invocations>>

\* A direct call of load_campaigns_to_bigquery with some batch.
LoadCallOf(p, n) ==
  /\ invocations < MaxInvocations
  /\ Fresh(p, "loader")
  /\ \E batch \in SeqsUpTo(LoaderCampaigns, n) : LoadEnter(p, "loader", batch)
  /\ access_token' = [access_token EXCEPT ![p] = ""]
  /\ page' = [page EXCEPT ![p] = 0]
  /\ all_campaigns' = [all_campaigns EXCEPT ![p] = << >>]
  /\ UNCHANGED <<env, warehouse, clock>>

\* One call after another.
LoadCall(p) == pc[p] \in {"idle", "done"} /\ LoadCallOf(p, MaxBatch)
\* One call by each of two callers that do not wait for each other.
ConcurrentLoadCall(p) == pc[p] = "idle" /\ LoadCallOf(p, MaxConcBatch)

\* client.get_table(table_ref) inside try / except Exception; when the table is found,
\* the stamping that follows. A missing table raises NotFound; an existing one may still
\* raise (any other error), and every exception takes the creation branch.
GetTable(p) ==
  /\ pc[p] = "get_table"
  /\ \/ /\ tableExists
        /\ calls' = Append(calls, GetTableCall(p, TRUE))
        /\ StampAndCollect(p)
     \/ /\ calls' = Append(calls, GetTableCall(p, FALSE))
        /\ pc' = [pc EXCEPT ![p] = "create"]
        /\ UNCHANGED <<campaigns, campaign_ids, current_timestamp, clock>>
  /\ UNCHANGED <<env, caller, access_token, fetcherVars, response, raised, warehouse,
                 tableBefore, overlapped, invocations>>

\* Faulty variant: the creation load is given the whole batch.
CreationRowsMutant(cs) == cs
\* What the creation load is given.
CreationRows(cs) == FirstRecord(cs)
\* What the creation load leaves in the table (write_disposition=WRITE_TRUNCATE).
Created(t, rows) == Truncated(t, rows)

\* The creation load of the except branch, and the stamping that follows it.
CreateTable(p) ==
  /\ pc[p] = "create"
  /\ \/ /\ calls' = Append(calls, CreateCall(p, CreationRows(campaigns[p]), TRUE))
        /\ table' = Created(table, CreationRows(campaigns[p]))
        /\ tableExists' = TRUE
        /\ StampAndCollect(p)
        /\ UNCHANGED <<response, raised>>
     \/ /\ calls' = Append(calls, CreateCall(p, CreationRows(campaigns[p]), FALSE))
        /\ Ends(p, caller[p], JobError("create"), campaigns[p])
        /\ UNCHANGED <<warehouse, campaigns, campaign_ids, current_timestamp, clock>>
  /\ UNCHANGED <<env, caller, access_token, fetcherVars, tableBefore, overlapped, invocations>>

\* Faulty variant: the delete statement names the first id only.
DeleteIdsMutant(ids) == {ids[1]}
\* The ids the delete statement names.
DeleteIds(ids) == Range(ids)

\* client.query(delete_query) and delete_job.result().
DeleteExisting(p) ==
  /\ pc[p] = "delete"
  /\ \/ /\ tableExists
        /\ calls' = Append(calls, DeleteCall(p, DeleteIds(campaign_ids[p]), TRUE))
        /\ table' = Deleted(table, DeleteIds(campaign_ids[p]))
        /\ pc' = [pc EXCEPT ![p] = "append"]
        /\ UNCHANGED <<response, raised>>
     \/ /\ calls' = Append(calls, DeleteCall(p, DeleteIds(campaign_ids[p]), FALSE))
        /\ Ends(p, caller[p], JobError("delete"), campaigns[p])
        /\ UNCHANGED table
  /\ UNCHANGED <<env, caller, access_token, fetcherVars, loaderVars, tableExists, clock,
                 invocations>>

\* What the final load is given.
AppendedRows(cs) == cs

\* The final load (write_disposition=WRITE_APPEND) and load_job.result(); then the return.
AppendRows(p) ==
  /\ pc[p] = "append"
  /\ \/ /\ calls' = Append(calls, AppendCall(p, AppendedRows(campaigns[p]), TRUE))
        /\ table' = Appended(table, AppendedRows(campaigns[p]))
        /\ tableExists' = TRUE
        /\ Ends(p, caller[p], NoError, campaigns[p])
     \/ /\ calls' = Append(calls, AppendCall(p, AppendedRows(campaigns[p]), FALSE))
        /\ Ends(p, caller[p], JobError("append"), campaigns[p])
        /\ UNCHANGED warehouse
  /\ UNCHANGED <<env, caller, access_token, fetcherVars, loaderVars, clock, invocations>>

\* ---------------------------------------------------------- specifications
InitLocals ==
  /\ pc = [p \in Procs |-> "idle"]
  /\ caller = [p \in Procs |-> "none"]
  /\ access_token = [p \in Procs |-> ""]
  /\ page = [p \in Procs |-> 0]
  /\ all_campaigns = [p \in Procs |-> << >>]
  /\ served = [p \in Procs |-> << >>]
  /\ campaigns = [p \in Procs |-> << >>]
  /\ campaign_ids = [p \in Procs |-> << >>]
  /\ current_timestamp = [p \in Procs |-> Unset]
  /\ response = [p \in Procs |-> NoResponse]
  /\ raised = [p \in Procs |-> NoError]
  /\ tableBefore = [p \in Procs |-> NoRows]
  /\ clock = 0
  /\ calls = << >>
  /\ invocations = 0
  /\ overlapped = FALSE

\* A fresh deployment: any environment, no destination table yet.
Init ==
  /\ env \in [RequiredVars -> EnvValues]
  /\ table = NoRows
  /\ tableExists = FALSE
  /\ InitLocals

Loader(p) == GetTable(p) \/ CreateTable(p) \/ DeleteExisting(p) \/ AppendRows(p)

\* The function as deployed: one invocation at a time.
Next == Invoke(1) \/ Authenticate(1) \/ FetchPage(1) \/ Loader(1)
Spec == Init /\ [][Next]_vars

InitConfigured ==
  /\ env = FullEnv
  /\ table = NoRows
  /\ tableExists = FALSE
  /\ InitLocals

\* fetch_all_campaigns alone.
NextFetch == FetchCall(1) \/ FetchPage(1)
SpecFetch == InitConfigured /\ [][NextFetch]_vars

\* load_campaigns_to_bigquery alone, one call at a time.
NextLoad == LoadCall(1) \/ Loader(1)
SpecLoad == InitConfigured /\ [][NextLoad]_vars

\* Two invocations of load_campaigns_to_bigquery against one existing table, with no
\* locking between them.
InitConc ==
  /\ env = FullEnv
  /\ table = NoRows
  /\ tableExists = TRUE
  /\ InitLocals
NextConc == \E p \in Procs : ConcurrentLoadCall(p) \/ Loader(p)
SpecConc == InitConc /\ [][NextConc]_vars

\* ------------------------------------------------------------------ claims
\* Vocabulary of the properties below.
CallsBy(p) == SelectSeq(calls, LAMBDA c : c.by = p)
WarehouseOps == {"get_table", "create", "delete", "append"}
UpTo(n) == [i \in 1..n |-> i]
PageRequests(p) ==
  LET L == SelectSeq(CallsBy(p), LAMBDA c : c.op = "page")
  IN [i \in 1..Len(L) |-> L[i].page]
OkNonEmpty(r) == r.status = 200 /\ r.has_data /\ r.data # << >>
OkEmpty(r) == r.status = 200 /\ (~r.has_data \/ r.data = << >>)
RECURSIVE Concat(_)
Concat(pages) == IF pages = << >> THEN << >> ELSE Head(pages).data \o Concat(Tail(pages))
\* An id is empty when it is absent, the empty string or zero.
NonEmptyId(v) == v.kind # "none" /\ v # NumId(0) /\ v # StrId("")
\* The ids of a batch as the warehouse's id column would hold them.
BatchIds(cs) == {ColumnText(c.id) : c \in {x \in Range(cs) : NonEmptyId(x.id)}}
RowsFor(t, txt) ==
  LET hit == {r \in DOMAIN t : NonEmptyId(r.id) /\ ColumnText(r.id) = txt}
      RECURSIVE Sum(_)
      Sum(S) == IF S = {} THEN 0 ELSE LET x == CHOOSE y \in S : TRUE IN t[x] + Sum(S \ {x})
  IN Sum(hit)
\* The number of rows of a table.
Size(t) ==
  LET RECURSIVE Sum(_)
      Sum(S) == IF S = {} THEN 0 ELSE LET x == CHOOSE y \in S : TRUE IN t[x] + Sum(S \ {x})
  IN Sum(DOMAIN t)
DupFree(cs) ==
  \A i, j \in 1..Len(cs) :
    (i < j /\ NonEmptyId(cs[i].id) /\ NonEmptyId(cs[j].id)) => ColumnText(cs[i].id) # ColumnText(cs[j].id)
\* None of the seven required values is missing or empty.
ConfigComplete == \A v \in RequiredVars : env[v] \notin {"None", ""}
Has(L, op, ok) == \E i \in 1..Len(L) : L[i].op = op /\ L[i].ok = ok

\* C1: after a successful load, the destination table holds at most one row for every
\* (non-empty) id of the batch just loaded, also when the table was just created and when
\* the batch comes from the fetcher, which does not deduplicate.
C1_AtMostOneRowPerId ==
  (pc[1] = "done" /\ caller[1] = "loader" /\ raised[1] = NoError)
    => \A txt \in BatchIds(campaigns[1]) : RowsFor(table, txt) <= 1

\* C2: after a load of a non-empty batch, every row that was in the table before and whose
\* id is not an id of the batch is still there, as often as before, whatever the existence
\* check answered.
C2_OtherRowsUntouched ==
  (pc[1] = "done" /\ caller[1] = "loader" /\ campaigns[1] # << >>)
    => \A r \in DOMAIN tableBefore[1] :
         (\A c \in Range(campaigns[1]) : c.id # r.id) => Copies(table, r) = Copies(tableBefore[1], r)

\* C3: while the server has answered every page so far with 200 and a non-empty list, the
\* fetcher is still looping, has asked for pages 1, 2, ... in order and holds their
\* concatenation; once page k+1 answers 200 with an empty or absent list after k such
\* pages, the fetcher has returned exactly the concatenation of pages 1..k after exactly
\* k+1 requests, for pages 1..k+1 in order (for k = 0: the empty list after one request).
C3_FetchReturnsAllPages ==
  LET s == served[1]
      n == Len(s)
  IN caller[1] = "fetcher" =>
       /\ (\A i \in 1..n : OkNonEmpty(s[i]))
            => /\ pc[1] = "fetch"
               /\ PageRequests(1) = UpTo(n)
               /\ page[1] = n + 1
               /\ all_campaigns[1] = Concat(s)
       /\ (n >= 1 /\ (\A i \in 1..(n - 1) : OkNonEmpty(s[i])) /\ OkEmpty(s[n]))
            => /\ pc[1] = "done"
               /\ raised[1] = NoError
               /\ campaigns[1] = Concat(SubSeq(s, 1, n - 1))
               /\ PageRequests(1) = UpTo(n)
               /\ Len(CallsBy(1)) = n
C3_Witness ==
  /\ caller[1] = "fetcher" /\ pc[1] = "done" /\ raised[1] = NoError
  /\ Len(served[1]) = 3
  /\ Len(campaigns[1]) = 2 /\ campaigns[1][1] # campaigns[1][2]

StepsSucceeded(p) ==
  /\ ConfigComplete
  /\ \A i \in 1..Len(CallsBy(p)) : CallsBy(p)[i].op # "get_table" => CallsBy(p)[i].ok
ExpectedError(p) ==
  IF ~ConfigComplete THEN ConfigError
  ELSE LET L == CallsBy(p)
           c == L[CHOOSE i \in 1..Len(L) : L[i].op # "get_table" /\ ~L[i].ok]
       IN CASE c.op = "token" /\ c.status # 200 -> AuthError(c.status)
            [] c.op = "token" /\ c.status = 200 -> TokenKeyError
            [] c.op = "page" -> FetchError(c.page, c.status)
            [] OTHER -> JobError(c.op)
C6_FailStop ==
  LET L == CallsBy(1)
  IN caller[1] = "orchestrator" =>
       /\ ~ConfigComplete => (L = << >> /\ pc[1] = "done")
       /\ \A i \in 1..Len(L) :
            (L[i].op = "token" /\ L[i].status # 200) => (Len(L) = i /\ pc[1] = "done")
       /\ \A i \in 1..Len(L) :
            (L[i].op = "page" /\ L[i].status # 200) =>
               /\ Len(L) = i /\ pc[1] = "done"
               /\ \A j \in 1..Len(L) : L[j].op \notin WarehouseOps
               /\ campaigns[1] = << >>
C6_Witness ==
  LET L == CallsBy(1)
  IN /\ caller[1] = "orchestrator" /\ pc[1] = "done"
     /\ Len(L) = 3 /\ L[3].op = "page" /\ L[3].status # 200
     /\ all_campaigns[1] # << >>
     /\ response[1].statusCode = 500

\* C7: for a zero-campaign account (the first page answers 200 with no data) the loader
\* gets an empty batch, performs no warehouse operation, leaves the table as it was, and
\* the invocation returns statusCode 200 with campaigns_processed = 0.
ZeroCampaigns(p) == caller[p] = "orchestrator" /\ Len(served[p]) = 1 /\ OkEmpty(served[p][1])
C7_EmptyBatchNoOp ==
  ZeroCampaigns(1) =>
    /\ pc[1] = "done"
    /\ raised[1] = NoError
    /\ campaigns[1] = << >>
    /\ \A i \in 1..Len(CallsBy(1)) : CallsBy(1)[i].op \notin WarehouseOps
    /\ table = tableBefore[1]
    /\ response[1].statusCode = 200
    /\ response[1].campaigns_processed = 0
C7_Witness == ZeroCampaigns(1) /\ pc[1] = "done" /\ Size(table) >= 2 /\ response[1].statusCode = 200

\* C8: for a non-empty batch, a failed existence check is followed by the creation load,
\* which is given exactly the first record of the batch, replaces the table's content, and
\* completes before any delete or append; after a successful existence check no creation
\* load is issued and only a delete and then an append, in this order, follow.
C8_CreateBeforeUpsert ==
  LET L == CallsBy(1)
      n == Len(L)
  IN (caller[1] = "loader" /\ n >= 1) =>
       /\ L[1].op = "get_table"
       /\ \A i \in 2..n : L[i].op # "get_table"
       /\ (n = 1 /\ ~L[1].ok) => pc[1] = "create"
       /\ (n >= 2 /\ ~L[1].ok) =>
            /\ L[2].op = "create"
            /\ L[2].rows = <<Campaign(campaigns[1][1].id)>>
       /\ (n = 2 /\ ~L[1].ok /\ L[2].ok) => table = RowsOf(L[2].rows)
       /\ \A i \in 1..n : L[i].op = "create" => (i = 2 /\ ~L[1].ok)
       /\ \A i \in 1..n :
            L[i].op \in {"delete", "append"} => (L[1].ok \/ (i > 2 /\ L[2].op = "create" /\ L[2].ok))
       /\ \A i, j \in 1..n : (i < j /\ L[i].op = "append") => FALSE
       /\ \A i, j \in 1..n : (i < j /\ L[i].op = "delete") => (L[i].ok /\ L[j].op = "append")
C8_Witness ==
  LET L == CallsBy(1)
  IN /\ caller[1] = "loader" /\ pc[1] = "done" /\ raised[1] = NoError
     /\ Len(L) = 4 /\ ~L[1].ok /\ L[2].op = "create" /\ L[3].op = "delete" /\ L[4].op = "append"
     /\ Len(campaigns[1]) = 2 /\ campaigns[1][1].id # campaigns[1][2].id
     /\ Size(tableBefore[1]) >= 1

\* C9: once the delete has completed, the rows stored for the batch's ids are gone; if the
\* append then fails (or the process stops before it) they stay gone, and the invocation
\* returns statusCode 500 with the append's error.
RowsForBatch(t, cs) == {r \in DOMAIN t : NonEmptyId(r.id) /\ ColumnText(r.id) \in BatchIds(cs)}
C9_DeleteNotRolledBack ==
  LET L == CallsBy(1)
  IN (caller[1] = "orchestrator" /\ Has(L, "delete", TRUE)) =>
       /\ pc[1] = "append" => RowsForBatch(table, campaigns[1]) = {}
       /\ Has(L, "append", FALSE) =>
            /\ pc[1] = "done"
            /\ RowsForBatch(table, campaigns[1]) = {}
            /\ response[1].statusCode = 500
            /\ response[1].error = JobError("append")
C9_Witness ==
  /\ caller[1] = "orchestrator" /\ pc[1] = "done"
  /\ Has(CallsBy(1), "delete", TRUE) /\ Has(CallsBy(1), "append", FALSE)
  /\ RowsForBatch(tableBefore[1], campaigns[1]) # {}
  /\ table # tableBefore[1]
  /\ response[1].statusCode = 500

\* C10: with duplicate-free batches against the existing table, the table holds more than
\* one row for an id only if the two invocations overlapped; and they can overlap so
\* (both deletes before both appends, both invocations succeeding): the witness.
SomeIdDuplicated == \E r \in DOMAIN table : NonEmptyId(r.id) /\ RowsFor(table, ColumnText(r.id)) > 1
====
